---------------------------- MODULE Spec2Model ----------------------------
(***************************************************************************)
(* Model of merge.py: the subscription merge pipeline.                     *)
(*   listing fetch (with retry) -> link classification -> subscription     *)
(*   fetch + node extraction -> quota filter -> concurrent TCP probe ->    *)
(*   sort by latency -> output file.                                       *)
(*                                                                         *)
(* Text is modelled by its tokens: a node URI is a string name whose       *)
(* content (base64 payload, JSON fields, URI authority and fragment) is    *)
(* given by the tables VmessJson and UrlParts; a remark is the record of   *)
(* the tokens the quota regular expressions look for.  Optional values are *)
(* sequences: None is <<>> and a present value v is <<v>>.                 *)
(* Byte counts are kept in KiB (bytes \div 1024): the threshold is a       *)
(* multiple of 1024, so every comparison with it is unchanged.             *)
(* Latencies are whole seconds.                                            *)
(***************************************************************************)
EXTENDS Integers, Sequences, FiniteSets, Bags, TLC

\* ------------------------------------------------------------ configuration
FETCH_RETRIES == 6
FETCH_WAIT_SECONDS == 6
MAX_LATENCY == 10
MIN_REMAIN_GB == 5
MAX_WORKERS == 30

\* ------------------------------------------------------------------ bounds
\* raw links found on the listing page
MaxLinks == 2
\* node URIs found in one subscription body (raw and decoded together)
MaxBodyNodes == 1

None == <<>>
Some(v) == <<v>>

\* ------------------------------------------------------------- input data
\* Links a listing page may hold; Ext is the lower-cased suffix of the link.
LinkPool == {"http://a/sub", "http://b/sub", "http://a/site.css"}

StaticExts == {".css", ".js", ".png", ".jpg", ".jpeg", ".svg", ".ico", ".woff", ".ttf"}

Ext(link) == IF link = "http://a/site.css" THEN ".css" ELSE ""

\* Node URI strings the subscription bodies may hold.
VmessPool == {"vmess://q62", "vmess://badport", "vmess://nohost",
              "vmess://psnum", "vmess://badb64", "vmess://jsonlist", "vmess://1234"}

UriPool == {"trojan://q50", "trojan://q3", "trojan://port0", "hysteria2://badnum"}

NodePool == VmessPool \cup UriPool

\* The [0-9,.]+ token of a remark: ip the integer part, fp the fraction in
\* hundredths, groups the number of '.'-separated digit groups.
Num(ip, fp, groups) == [ip |-> ip, fp |-> fp, groups |-> groups]

\* A remark string, by the tokens the quota patterns look for:
\*   label  "cjk"    the full CJK label followed by a colon
\*          "remain" the short CJK label / remaining / remain
\*          "none"   no label
\*   num    the number token, unit the unit token as written
Txt(label, num, unit) == [t |-> "str", label |-> label, num |-> num, unit |-> unit]

JAbsent == [t |-> "absent"]
JStr(s) == [t |-> "str", s |-> s]
JInt(n) == [t |-> "int", n |-> n]

\* What base64-decoding the payload of a vmess URI and json.loads give:
\* an error, a JSON value that is no object, or an object with its fields.
VmessJson(node) ==
    CASE node = "vmess://q62" ->
           [j |-> "dict", ps |-> Txt("cjk", Num(6, 20, 2), "GB"),
            add |-> JStr("1.2.3.4"), port |-> JStr("443")]
      [] node = "vmess://badport" ->
           [j |-> "dict", ps |-> Txt("remain", Num(20, 55, 2), "G"),
            add |-> JStr("9.9.9.9"), port |-> JStr("abc")]
      [] node = "vmess://nohost" ->
           [j |-> "dict", remarks |-> Txt("cjk", Num(7, 0, 1), "GB"),
            port |-> JInt(443)]
      [] node = "vmess://psnum" ->
           [j |-> "dict", ps |-> JInt(123),
            add |-> JStr("1.2.3.4"), port |-> JInt(443)]
      [] node = "vmess://jsonlist" -> [j |-> "list"]
      [] OTHER -> [j |-> "error"]

\* What json.loads gives for the payload taken as JSON text, undecoded.
VmessAltJson(node) ==
    IF node = "vmess://1234" THEN [j |-> "number"] ELSE [j |-> "error"]

\* What urlparse gives for a trojan / hysteria2 URI: hostname, port (None
\* when the authority has none) and the fragment.
UrlParts(node) ==
    CASE node = "trojan://q50" ->
           [hostname |-> Some("h1.example"), port |-> Some(443),
            fragment |-> Some(Txt("cjk", Num(5, 0, 1), "gb"))]
      [] node = "trojan://q3" ->
           [hostname |-> Some("h2.example"), port |-> Some(443),
            fragment |-> Some(Txt("cjk", Num(3, 0, 2), "GB"))]
      [] node = "trojan://port0" ->
           [hostname |-> Some("h3.example"), port |-> Some(0),
            fragment |-> Some(Txt("cjk", Num(8, 0, 1), "GB"))]
      [] node = "hysteria2://badnum" ->
           [hostname |-> Some("h4.example"), port |-> Some(443),
            fragment |-> Some(Txt("cjk", Num(1, 2, 3), "GB"))]
      [] OTHER -> [hostname |-> None, port |-> None, fragment |-> None]

\* int(s) of a JSON string: None stands for ValueError.
StrToInt(s) ==
    CASE s = "443" -> Some(443)
      [] s = "0" -> Some(0)
      [] OTHER -> None

\* str.upper() on the unit tokens the patterns accept.
Upper(u) ==
    CASE u = "gb" -> "GB"
      [] u = "g" -> "G"
      [] u = "mb" -> "MB"
      [] u = "kb" -> "KB"
      [] u = "tb" -> "TB"
      [] u = "b" -> "B"
      [] OTHER -> u

\* Seconds a successful connect may take.
LatencySamples == {4, MAX_LATENCY, MAX_LATENCY + 1}

\* ------------------------------------------------------------ pure functions
\* Python truthiness of a JSON value (None, a string, a number).
Truthy(v) ==
    CASE v.t = "absent" -> FALSE
      [] v.t = "int" -> v.n # 0
      [] OTHER -> TRUE

\* dict.get
Get(info, key) == IF key \in DOMAIN info THEN info[key] ELSE JAbsent

\* a or b
Or(a, b) == IF Truthy(a) THEN a ELSE b

\* decode_vmess_json_from_node: the decoded JSON value, or j = "error" (None).
decode_vmess_json_from_node(node) ==
    IF VmessJson(node).j # "error" THEN VmessJson(node) ELSE VmessAltJson(node)

\* multiplier of convert_size_to_bytes, divided by 1024
MulKiB(unit) ==
    CASE unit \in {"K", "KB"} -> 1
      [] unit \in {"M", "MB"} -> 1024
      [] unit \in {"G", "GB"} -> 1024 * 1024
      [] unit \in {"T", "TB"} -> 1024 * 1024 * 1024
      [] OTHER -> 0

\* convert_size_to_bytes: int(float(num) * mul) in KiB; None stands for the
\* ValueError float() raises on a token with more than one '.'.
convert_size_to_bytes(num, unit_str) ==
    LET unit == Upper(unit_str) IN
    IF num.groups > 2 THEN None
    ELSE IF MulKiB(unit) = 0 THEN Some(num.ip \div 1024)
    ELSE Some(num.ip * MulKiB(unit) + (num.fp * MulKiB(unit)) \div 100)

\* The two re.search calls on a remark string and the conversion of the match.
RemainOfRemark(remark) ==
    IF remark.label \in {"cjk", "remain"}
    THEN convert_size_to_bytes(remark.num, remark.unit)
    ELSE None

\* parse_node_remark_and_remaining: raised is TRUE when the call raises
\* (re.search on a remark that is no string), else remark and remain_bytes.
parse_node_remark_and_remaining(node) ==
    LET info == decode_vmess_json_from_node(node)
        remark ==
          IF node \in VmessPool
          THEN IF info.j = "dict"
               THEN Or(Or(Or(Get(info, "ps"), Get(info, "remark")), Get(info, "ps")),
                       Get(info, "remarks"))
               ELSE JAbsent
          ELSE IF UrlParts(node).fragment # None
               THEN UrlParts(node).fragment[1]
               ELSE JAbsent
    IN  IF ~Truthy(remark) THEN [raised |-> FALSE, remark |-> None, remain |-> None]
        ELSE IF remark.t # "str" THEN [raised |-> TRUE, remark |-> None, remain |-> None]
        ELSE [raised |-> FALSE, remark |-> Some(remark), remain |-> RemainOfRemark(remark)]

\* int(port) inside its own try: None on TypeError / ValueError.
IntOfPort(port) ==
    CASE port.t = "int" -> Some(port.n)
      [] port.t = "str" -> StrToInt(port.s)
      [] OTHER -> None

\* parse_host_port: (host, port), each possibly None.
parse_host_port(node) ==
    LET info == decode_vmess_json_from_node(node)
        h == Or(Or(Get(info, "add"), Get(info, "address")), Get(info, "host"))
    IN  IF node \in VmessPool
        THEN IF info.j = "dict"
             THEN [host |-> IF Truthy(h) THEN Some(h.s) ELSE None,
                   port |-> IntOfPort(Get(info, "port"))]
             ELSE [host |-> None, port |-> None]
        ELSE [host |-> UrlParts(node).hostname,
              port |-> IF UrlParts(node).port # None /\ UrlParts(node).port[1] # 0
                       THEN UrlParts(node).port ELSE None]

\* HasHostPort without the test of the port
HasHostPort_NoPort(host, port) == host # None /\ host[1] # ""

\* "not host or not port" of _test_item and tcp_test, negated.
HasHostPort(host, port) ==
    /\ host # None /\ host[1] # ""
    /\ port # None /\ port[1] # 0

\* int(MIN_REMAIN_GB * 1024 ** 3), in KiB
min_remain_bytes == MIN_REMAIN_GB * 1024 * 1024

\* the quota test of main
QuotaKeep(remain_bytes) == remain_bytes # None /\ remain_bytes[1] >= min_remain_bytes

\* LatencyKeep without the comparison with MAX_LATENCY
LatencyKeep_NoMax(latency) == latency # None

\* the latency test of main
LatencyKeep(latency) == latency # None /\ latency[1] <= MAX_LATENCY

\* extract_links_from_listing: dict.fromkeys keeps the first of each link.
RECURSIVE Uniq(_)
Uniq(links) ==
    IF links = <<>> THEN <<>>
    ELSE LET init == Uniq(SubSeq(links, 1, Len(links) - 1))
             last == links[Len(links)]
         IN  IF \E i \in 1..Len(init) : init[i] = last THEN init ELSE Append(init, last)

\* is_likely_subscription_content on a body
is_likely_subscription_content(body) ==
    \/ body.raw # {}
    \/ body.dec # None /\ body.dec[1] # {}

\* extract_nodes_from_text on a body
extract_nodes_from_text(body) ==
    body.raw \cup (IF body.dec # None THEN body.dec[1] ELSE {})

\* usable.sort(key=latency): a stable insertion sort
RECURSIVE SortByLatency(_)
Insert(x, s) ==
    LET k == Cardinality({i \in 1..Len(s) : s[i].latency <= x.latency})
    IN  SubSeq(s, 1, k) \o <<x>> \o SubSeq(s, k + 1, Len(s))
SortByLatency_Unsorted(s) == s
SortByLatency(s) ==
    IF s = <<>> THEN <<>>
    ELSE Insert(s[Len(s)], SortByLatency(SubSeq(s, 1, Len(s) - 1)))

\* ---------------------------------------------------------------- state
VARIABLES
    pc,                \* where main() is: "fetch", "classify", "subs", "quota", "probe", "exit"
    outcome,           \* how the run ended, "running" until then
    exitStatus,        \* the process exit status, None while running
    attempts,          \* GETs made on the listing URL
    waits,             \* the time.sleep() calls of fetch_with_retry, in order
    candidate_links,   \* extract_links_from_listing's result, less the links the loop has visited
    clsGets,           \* per link, the number of classification GETs made
    resp,              \* what the GET of the latest loop iteration gave; NoResp outside the loops
    subscription_urls, \* the links classified as subscriptions, less those the loop has visited
    subGets,           \* per link, the number of subscription GETs made
    found,             \* sum of the "nodes found" counts of the subscriptions
    all_nodes,         \* the aggregated node set, as a bag of URIs
    candidate_nodes,   \* (node, remain_bytes, remark) items
    pending,           \* submitted futures no worker has taken, as indices
    running,           \* futures a worker is executing
    doneQ,             \* completed futures not yet yielded by as_completed
    collected,         \* futures as_completed has yielded
    tcpLog,            \* per node, the number of socket.create_connection calls
    probeLat,          \* per node, what its last connect measured
    usable,
    outFile,           \* the output file: None when absent, else its lines
    fileOpens          \* number of open(OUTPUT_FILE, "w") calls

vars == <<pc, outcome, exitStatus, attempts, waits, candidate_links, clsGets, resp,
          subscription_urls, subGets, found, all_nodes,
          candidate_nodes, pending, running, doneQ, collected, tcpLog, probeLat,
          usable, outFile, fileOpens>>

fetchVars == <<attempts, waits>>
discoverVars == <<candidate_links, clsGets, resp, subscription_urls>>
subsVars == <<subGets, found, all_nodes>>
quotaVars == <<candidate_nodes>>
probeVars == <<pending, running, doneQ, collected, tcpLog, probeLat, usable>>
fileVars == <<outFile, fileOpens>>

\* Listing pages: the http(s) tokens re.findall returns, in page order.
Listings == UNION {[1..n -> LinkPool] : n \in 0..MaxLinks}

NodeSets == {s \in SUBSET NodePool : Cardinality(s) <= MaxBodyNodes}

\* Response bodies: the node tokens in the text as sent, and, when the text
\* base64-decodes, the node tokens in the decoded text.  A text that decodes
\* is taken to hold no token of its own or to decode to tokens it also holds.
Bodies == {b \in [raw : NodeSets, dec : {None} \cup {Some(s) : s \in NodeSets}] :
              /\ Cardinality(extract_nodes_from_text(b)) <= MaxBodyNodes
              /\ b.dec # None => b.raw = {} \/ b.dec[1] \subseteq b.raw}

HttpStatuses == {200, 404}

\* What a GET gives: requests.get raises, or a response with its status.
NoResp == <<>>
Raised == <<"raised">>
Status(st) == <<"status", st>>
Responses == {Raised} \cup {Status(st) : st \in HttpStatuses}

\* A file left at the output path by an earlier run.
StaleFile == <<"stale">>

Init ==
    /\ pc = "fetch"
    /\ outcome = "running"
    /\ exitStatus = None
    /\ attempts = 0
    /\ waits = <<>>
    /\ candidate_links = <<>>
    /\ clsGets = [l \in LinkPool |-> 0]
    /\ resp = NoResp
    /\ subscription_urls = <<>>
    /\ subGets = [l \in LinkPool |-> 0]
    /\ found = 0
    /\ all_nodes = EmptyBag
    /\ candidate_nodes = <<>>
    /\ pending = <<>>
    /\ running = {}
    /\ doneQ = <<>>
    /\ collected = {}
    /\ tcpLog = [n \in NodePool |-> 0]
    /\ probeLat = [n \in NodePool |-> None]
    /\ usable = <<>>
    /\ outFile \in {None, Some(StaleFile)}
    /\ fileOpens = 0

\* sys.exit(status) with the outcome that led to it
Exit(how, status) ==
    /\ pc' = "exit"
    /\ outcome' = how
    /\ exitStatus' = Some(status)

\* ExitStatusOf with every outcome but a written file an error
ExitStatusOf_AllErrors(how) == IF how = "written" THEN 0 ELSE 1

\* exit status of each way main() ends
ExitStatusOf(how) ==
    CASE how = "fetch_failed" -> 1
      [] how = "no_sources" -> 1
      [] how = "no_quota" -> 0
      [] how = "no_usable" -> 0
      [] how = "written" -> 0
      [] OTHER -> 1

\* -------------------------------------------------------- fetch_with_retry
\* BackoffWait growing linearly
BackoffWait_Linear(i) == FETCH_WAIT_SECONDS * i

\* wait after the i-th failed attempt
BackoffWait(i) == FETCH_WAIT_SECONDS * (2 ^ (i - 1))

\* r.raise_for_status(): a status outside 2xx raises
RaiseForStatus(status) == status \notin 200..299

\* One iteration of the retry loop that succeeds: the body is returned and
\* main() extracts the candidate links.
FetchListingOk ==
    /\ pc = "fetch"
    /\ attempts < FETCH_RETRIES
    /\ \E html \in Listings, status \in HttpStatuses :
         /\ ~RaiseForStatus(status)
         /\ attempts' = attempts + 1
         /\ candidate_links' = Uniq(html)
         /\ pc' = "classify"
    /\ UNCHANGED <<outcome, exitStatus, waits, clsGets, resp, subscription_urls>>
    /\ UNCHANGED <<subsVars, quotaVars, probeVars, fileVars>>

\* One iteration that fails (the GET raises, or raise_for_status does): the
\* loop sleeps; after the last attempt RuntimeError is raised and main() exits.
FetchListingFail ==
    /\ pc = "fetch"
    /\ attempts < FETCH_RETRIES
    /\ \E r \in Responses :
         /\ IF r = Raised THEN TRUE ELSE RaiseForStatus(r[2])
         /\ attempts' = attempts + 1
         /\ waits' = Append(waits, BackoffWait(attempts + 1))
         /\ IF attempts + 1 = FETCH_RETRIES
            THEN Exit("fetch_failed", ExitStatusOf("fetch_failed"))
            ELSE UNCHANGED <<pc, outcome, exitStatus>>
    /\ UNCHANGED <<discoverVars, subsVars, quotaVars, probeVars, fileVars>>

\* ------------------------------------------------------- link classification
\* AfterFetchError leaving the loop ("break")
AfterFetchError_Break(left) == <<>>

\* what a loop has left to visit after the GET for the head of its list
\* raised: "continue" goes on with the rest
AfterFetchError(left) == Tail(left)

\* One iteration of the loop over candidate_links.  Every link matched
\* https?:// in the listing, so the test on the scheme never skips one.
ClassifyLink ==
    /\ pc = "classify"
    /\ candidate_links # <<>>
    /\ LET link == Head(candidate_links) IN
       IF Ext(link) \in StaticExts
       THEN /\ candidate_links' = Tail(candidate_links)
            /\ UNCHANGED <<clsGets, resp, subscription_urls>>
       ELSE \E r \in Responses, body \in Bodies :
              /\ clsGets' = [clsGets EXCEPT ![link] = @ + 1]
              /\ resp' = r
              /\ IF r = Raised
                 THEN /\ candidate_links' = AfterFetchError(candidate_links)
                      /\ UNCHANGED subscription_urls
                 ELSE /\ candidate_links' = Tail(candidate_links)
                      /\ subscription_urls' =
                           IF is_likely_subscription_content(body)
                           THEN Append(subscription_urls, link)
                           ELSE subscription_urls
    /\ UNCHANGED <<pc, outcome, exitStatus>>
    /\ UNCHANGED <<fetchVars, subsVars, quotaVars, probeVars, fileVars>>

\* After the loop: "if not subscription_urls: sys.exit(1)".
CheckSubscriptions ==
    /\ pc = "classify"
    /\ candidate_links = <<>>
    /\ IF subscription_urls = <<>>
       THEN Exit("no_sources", ExitStatusOf("no_sources"))
       ELSE /\ pc' = "subs"
            /\ UNCHANGED <<outcome, exitStatus>>
    /\ resp' = NoResp
    /\ UNCHANGED <<candidate_links, clsGets, subscription_urls>>
    /\ UNCHANGED <<fetchVars, subsVars, quotaVars, probeVars, fileVars>>

\* ------------------------------------------------- subscription fetch
\* AddAll on a list: every extracted node is appended
AddAll_Append(bag, nodes) == bag (+) SetToBag(nodes)

\* all_nodes.add(n) for every n of nodes: a set holds each element once
AddAll(bag, nodes) == bag (+) SetToBag({n \in nodes : ~BagIn(n, bag)})

\* One iteration of the loop over subscription_urls.
FetchSubscription ==
    /\ pc = "subs"
    /\ subscription_urls # <<>>
    /\ LET su == Head(subscription_urls) IN
       \E r \in Responses, body \in Bodies :
         /\ subGets' = [subGets EXCEPT ![su] = @ + 1]
         /\ resp' = r
         /\ IF r = Raised
            THEN /\ subscription_urls' = AfterFetchError(subscription_urls)
                 /\ UNCHANGED <<found, all_nodes>>
            ELSE LET nodes == extract_nodes_from_text(body)
                 IN  /\ subscription_urls' = Tail(subscription_urls)
                     /\ found' = found + Cardinality(nodes)
                     /\ all_nodes' = AddAll(all_nodes, nodes)
    /\ UNCHANGED <<pc, outcome, exitStatus, candidate_links, clsGets>>
    /\ UNCHANGED <<fetchVars, quotaVars, probeVars, fileVars>>

\* ------------------------------------------------------------ quota filter
\* The orders in which "for node in all_nodes" may visit the elements.
RECURSIVE IterOrders(_)
IterOrders(bag) ==
    IF bag = EmptyBag THEN {<<>>}
    ELSE UNION {{<<n>> \o rest : rest \in IterOrders(bag (-) SetToBag({n}))} :
                  n \in BagToSet(bag)}

\* The items the loop appends for the nodes visited in the given order.
RECURSIVE Survivors(_)
Survivors(order) ==
    IF order = <<>> THEN <<>>
    ELSE LET r == parse_node_remark_and_remaining(Head(order)) IN
         IF QuotaKeep(r.remain)
         THEN <<[node |-> Head(order), remain_bytes |-> r.remain[1], remark |-> r.remark]>>
                 \o Survivors(Tail(order))
         ELSE Survivors(Tail(order))

\* The loop over all_nodes: an exception of parse_node_remark_and_remaining
\* is not caught and ends main(); else every node is tested against the quota.
QuotaFilter ==
    /\ pc = "subs"
    /\ subscription_urls = <<>>
    /\ IF \E n \in BagToSet(all_nodes) : parse_node_remark_and_remaining(n).raised
       THEN /\ Exit("uncaught", ExitStatusOf("uncaught"))
            /\ UNCHANGED candidate_nodes
       ELSE /\ \E order \in IterOrders(all_nodes) : candidate_nodes' = Survivors(order)
            /\ pc' = "quota"
            /\ UNCHANGED <<outcome, exitStatus>>
    /\ resp' = NoResp
    /\ UNCHANGED <<candidate_links, clsGets, subscription_urls>>
    /\ UNCHANGED <<fetchVars, subsVars, probeVars, fileVars>>

\* After the loop: "if not candidate_nodes: sys.exit(0)", else the pool is
\* opened and one future per item is submitted.
CheckCandidates ==
    /\ pc = "quota"
    /\ IF candidate_nodes = <<>>
       THEN /\ Exit("no_quota", ExitStatusOf("no_quota"))
            /\ UNCHANGED pending
       ELSE /\ pc' = "probe"
            /\ pending' = [i \in 1..Len(candidate_nodes) |-> i]
            /\ UNCHANGED <<outcome, exitStatus>>
    /\ UNCHANGED <<running, doneQ, collected, tcpLog, probeLat, usable>>
    /\ UNCHANGED <<fetchVars, discoverVars, subsVars, quotaVars, fileVars>>

\* ------------------------------------------------------------------ probing
\* max_workers of the pool
PoolWidth == IF Len(candidate_nodes) = 0 THEN 1
             ELSE IF MAX_WORKERS < Len(candidate_nodes) THEN MAX_WORKERS
             ELSE Len(candidate_nodes)

\* A free worker takes the oldest submitted future.
WorkerStart ==
    /\ pc = "probe"
    /\ pending # <<>>
    /\ Cardinality(running) < PoolWidth
    /\ running' = running \cup {Head(pending)}
    /\ pending' = Tail(pending)
    /\ UNCHANGED <<pc, outcome, exitStatus, doneQ, collected, tcpLog, probeLat, usable>>
    /\ UNCHANGED <<fetchVars, discoverVars, subsVars, quotaVars, fileVars>>

\* A worker runs _test_item to its end: None without host or port, else
\* tcp_test connects once and gives the time taken, or None on any error.
WorkerFinish ==
    /\ pc = "probe"
    /\ \E i \in running :
         LET item == candidate_nodes[i]
             hp == parse_host_port(item.node)
         IN  /\ running' = running \ {i}
             /\ IF ~HasHostPort(hp.host, hp.port)
                THEN /\ doneQ' = Append(doneQ, [idx |-> i, result |-> None])
                     /\ UNCHANGED <<tcpLog, probeLat>>
                ELSE \E latency \in {None} \cup {Some(t) : t \in LatencySamples} :
                       /\ tcpLog' = [tcpLog EXCEPT ![item.node] = @ + 1]
                       /\ probeLat' = [probeLat EXCEPT ![item.node] = latency]
                       /\ doneQ' = Append(doneQ,
                            [idx |-> i,
                             result |-> Some([latency |-> latency, node |-> item.node,
                                              remain_bytes |-> item.remain_bytes,
                                              remark |-> item.remark])])
    /\ UNCHANGED <<pc, outcome, exitStatus, pending, collected, usable>>
    /\ UNCHANGED <<fetchVars, discoverVars, subsVars, quotaVars, fileVars>>

\* One iteration of "for fut in as_completed(futures)".  _test_item raises
\* nothing, so fut.result() always returns.
Collect ==
    /\ pc = "probe"
    /\ doneQ # <<>>
    /\ LET fut == Head(doneQ) IN
       /\ doneQ' = Tail(doneQ)
       /\ collected' = collected \cup {fut.idx}
       /\ usable' =
            IF fut.result # None /\ LatencyKeep(fut.result[1].latency)
            THEN Append(usable, [latency |-> fut.result[1].latency[1],
                                 node |-> fut.result[1].node,
                                 remain_bytes |-> fut.result[1].remain_bytes,
                                 remark |-> fut.result[1].remark])
            ELSE usable
    /\ UNCHANGED <<pc, outcome, exitStatus, pending, running, tcpLog, probeLat>>
    /\ UNCHANGED <<fetchVars, discoverVars, subsVars, quotaVars, fileVars>>

\* ShouldWrite without the test for an empty list
ShouldWrite_Always(nodes) == TRUE

\* whether main() goes on to open the output file
ShouldWrite(nodes) == nodes # <<>>

\* the futures as_completed must have yielded before the loop ends
AwaitedFutures(n) == 1..n

\* After the pool has drained: sort, "if not usable: sys.exit(0)", else the
\* file is opened for writing and one line per usable node is written.
SortAndWrite ==
    /\ pc = "probe"
    /\ collected = AwaitedFutures(Len(candidate_nodes))
    /\ LET sorted == SortByLatency(usable) IN
       /\ usable' = sorted
       /\ IF ShouldWrite(sorted)
          THEN /\ fileOpens' = fileOpens + 1
               /\ outFile' = Some([i \in 1..Len(sorted) |-> sorted[i].node])
               /\ Exit("written", ExitStatusOf("written"))
          ELSE /\ Exit("no_usable", ExitStatusOf("no_usable"))
               /\ UNCHANGED fileVars
    /\ UNCHANGED <<pending, running, doneQ, collected, tcpLog, probeLat>>
    /\ UNCHANGED <<fetchVars, discoverVars, subsVars, quotaVars>>

Next ==
    \/ FetchListingOk
    \/ FetchListingFail
    \/ ClassifyLink
    \/ CheckSubscriptions
    \/ FetchSubscription
    \/ QuotaFilter
    \/ CheckCandidates
    \/ WorkerStart
    \/ WorkerFinish
    \/ Collect
    \/ SortAndWrite

Spec == Init /\ [][Next]_vars

\* ------------------------------------------------------------------ claims
Lines == IF outFile = None THEN <<>> ELSE outFile[1]

InLines(n) == \E i \in 1..Len(Lines) : Lines[i] = n

Candidates == {candidate_nodes[i].node : i \in 1..Len(candidate_nodes)}

\* the byte threshold and what the quota parser gives for a node, in KiB
ThresholdKiB == MIN_REMAIN_GB * 1024 * 1024
RemainOf(n) == parse_node_remark_and_remaining(n).remain

QuotaOk(n) == RemainOf(n) # None /\ RemainOf(n)[1] >= ThresholdKiB
LatencyOk(n) == probeLat[n] # None /\ probeLat[n][1] <= MAX_LATENCY

\* the node has a host and a port to connect to
Connectable(n) ==
    /\ parse_host_port(n).host # None
    /\ parse_host_port(n).port # None
    /\ parse_host_port(n).port[1] # 0

ProbingOver == outcome \in {"written", "no_usable"}

C2_SortedAfterAllProbes ==
    /\ outcome = "written" =>
         \A i, j \in 1..Len(Lines) : i < j => probeLat[Lines[i]][1] <= probeLat[Lines[j]][1]
    /\ ProbingOver =>
         /\ pending = <<>> /\ running = {} /\ doneQ = <<>>
         /\ collected = 1..Len(candidate_nodes)
    /\ outcome = "written" => \A n \in Candidates : LatencyOk(n) => InLines(n)

\* two survivors with different latencies are written, the faster first
C2_Witness ==
    /\ outcome = "written"
    /\ Len(Lines) = 2
    /\ probeLat[Lines[1]] = Some(4)
    /\ probeLat[Lines[2]] = Some(MAX_LATENCY)

\* C3: a node URI extracted more than once is held once in the aggregated
\* set, is connected to at most once, and is on at most one line of the file.
C3_Deduplicated ==
    /\ \A n \in BagToSet(all_nodes) : CopiesIn(n, all_nodes) = 1
    /\ \A n \in NodePool : tcpLog[n] <= 1
    /\ \A i, j \in 1..Len(Lines) : i # j => Lines[i] # Lines[j]

\* two subscriptions gave two nodes in all, the aggregated set holds one, and
\* it is written once
C3_Witness ==
    /\ outcome = "written"
    /\ found = 2
    /\ BagCardinality(all_nodes) = 1
    /\ Len(Lines) = 1

\* C4: a classification GET, subscription GET or TCP connect that fails is
\* made once, drops only its own link, source or node, and leaves the run
\* going with everything else still to be processed; the loops end only
\* when nothing is left.
C4_FailureAction ==
    /\ (clsGets' # clsGets /\ resp' = Raised) =>
         /\ pc' = "classify" /\ outcome' = "running"
         /\ candidate_links' = Tail(candidate_links)
         /\ subscription_urls' = subscription_urls
    /\ (subGets' # subGets /\ resp' = Raised) =>
         /\ pc' = "subs" /\ outcome' = "running"
         /\ subscription_urls' = Tail(subscription_urls)
         /\ all_nodes' = all_nodes
    /\ \A i \in running :
         (i \notin running' /\ probeLat'[candidate_nodes[i].node] = None) =>
           /\ pc' = "probe" /\ outcome' = "running"
           /\ running' = running \ {i}
           /\ pending' = pending
           /\ usable' = usable
           /\ Len(doneQ') = Len(doneQ) + 1

C4_FailureState ==
    /\ \A l \in LinkPool : clsGets[l] <= 1 /\ subGets[l] <= 1
    /\ \A n \in NodePool : tcpLog[n] <= 1
    /\ pc \in {"subs", "quota", "probe"} => candidate_links = <<>>
    /\ pc \in {"quota", "probe"} => subscription_urls = <<>>
    /\ ProbingOver => \A n \in Candidates : Connectable(n) => tcpLog[n] = 1

C4_FailureContained == []C4_FailureState /\ [][C4_FailureAction]_vars

\* the GET for the first of two subscriptions raised and the second is still
\* to be fetched
C4_Witness ==
    /\ pc = "subs"
    /\ resp = Raised
    /\ Len(subscription_urls) = 1
    /\ \E l \in LinkPool : subGets[l] = 1

\* C5: fetch_with_retry makes at most FETCH_RETRIES attempts, makes none
\* after the first success, sleeps FETCH_WAIT_SECONDS * 2^(i-1) after the
\* i-th failure, and after FETCH_RETRIES failures main() exits with status 1
\* before any link is classified.
C5_RetryWithBackoff ==
    /\ attempts <= FETCH_RETRIES
    /\ \A k \in 1..Len(waits) : waits[k] = FETCH_WAIT_SECONDS * (2 ^ (k - 1))
    /\ pc = "fetch" => attempts = Len(waits)
    /\ outcome = "fetch_failed" <=> Len(waits) = FETCH_RETRIES
    /\ outcome = "fetch_failed" =>
         /\ attempts = FETCH_RETRIES
         /\ exitStatus = Some(1)
         /\ \A l \in LinkPool : clsGets[l] = 0
    /\ (pc # "fetch" /\ outcome # "fetch_failed") => attempts = Len(waits) + 1

\* all attempts failed: six sleeps, doubling from the base wait, then exit 1
C5_Witness ==
    /\ outcome = "fetch_failed"
    /\ waits = <<6, 12, 24, 48, 96, 192>>
    /\ exitStatus = Some(1)

C7_FileState ==
    /\ outcome \in {"fetch_failed", "no_sources", "no_quota", "no_usable"} =>
         fileOpens = 0
    /\ fileOpens = 0 => outFile \in {None, Some(StaleFile)}
    /\ fileOpens > 0 =>
         /\ outcome = "written" /\ fileOpens = 1
         /\ Len(usable) >= 1
         /\ outFile = Some([i \in 1..Len(usable) |-> usable[i].node])

C7_FileAction == fileOpens' = fileOpens => outFile' = outFile

C7_FileOnlyWithUsableNodes == []C7_FileState /\ [][C7_FileAction]_vars

\* probing left no usable node and the file of an earlier run is still there
C7_Witness ==
    /\ outcome = "no_usable"
    /\ candidate_nodes # <<>>
    /\ fileOpens = 0
    /\ outFile = Some(StaleFile)

Non2xx(r) == Len(r) = 2 /\ r[2] \notin 200..299

\* C8: a response with a status outside 2xx counts as a failed fetch: such
\* a classification GET adds no subscription source and such a subscription
\* GET adds no node.
C8_Non2xxAction ==
    /\ (clsGets' # clsGets /\ Non2xx(resp')) => subscription_urls' = subscription_urls
    /\ (subGets' # subGets /\ Non2xx(resp')) => all_nodes' = all_nodes

C8_Non2xxIsFailure == [][C8_Non2xxAction]_vars

\* C9: parse_node_remark_and_remaining and parse_host_port never raise, so
\* no parse failure ends main().
C9_ParsersNeverRaise == outcome # "uncaught"

\* C10: a connection is attempted only for quota survivors that have both a
\* host and a port, once for each of them by the end of probing, and a node
\* without host or port is never written.
C10_ConnectOnlyWithHostPort ==
    /\ \A n \in NodePool : tcpLog[n] > 0 => n \in Candidates /\ Connectable(n)
    /\ \A n \in NodePool : tcpLog[n] <= 1
    /\ ProbingOver => \A n \in Candidates : Connectable(n) => tcpLog[n] = 1
    /\ \A i \in 1..Len(Lines) : outcome = "written" => Connectable(Lines[i])

\* a quota survivor with port 0 went through probing unconnected while
\* another node was written
C10_Witness ==
    /\ outcome = "written"
    /\ "trojan://port0" \in Candidates
    /\ QuotaOk("trojan://port0")
    /\ tcpLog["trojan://port0"] = 0
    /\ ~InLines("trojan://port0")

=============================================================================
